---- MODULE Spec2Model ----
(***************************************************************************)
(* Model of the pitch-deck slideshow: the retry-with-backoff helper        *)
(* fetchWithRetry and the per-slide background controller SlideBackground  *)
(* driven by PresentationApp's navigation.                                 *)
(*                                                                         *)
(* Two copies of fetchWithRetry exist in the sources and differ in how a   *)
(* failure is classified:                                                  *)
(*   "v44"  : src/index.tsx:44-77 (identical to src/unnamed/part_002:43-76)*)
(*   "v600" : src/index.tsx:600-631, the one the per-slide SlideBackground *)
(*            of src/index.tsx:713-752 calls.                              *)
(*                                                                         *)
(* Conventions.  JavaScript undefined/null of a string-valued slot is the  *)
(* string None; numeric statuses are written as their decimal digits       *)
(* ("429"); a message is a sequence of one-character strings, the empty    *)
(* sequence standing for a missing or empty (falsy) message; an optional   *)
(* object is a sequence of length 0 or 1.                                  *)
(***************************************************************************)
EXTENDS Integers, Sequences, FiniteSets, TLC

VARIABLES
    rcall,          \* the fetchWithRetry call exercised in isolation (SpecRetry)
    currentSlide,   \* PresentationApp: index of the slide shown
    imageUrl,       \* SlideBackground state, per slide
    loading,        \* SlideBackground state, per slide
    errorStatus,    \* SlideBackground state, per slide
    fetches,        \* per slide: the fetchImage invocations still awaiting
    lastFetch,      \* per slide: record of the last fetchImage that finished
    effectPending,  \* a commit happened whose passive effects have not run yet
    mounted,        \* the SlideBackground components are mounted
    isFullscreen,   \* PresentationApp: the flag behind the Minimize/Maximize icon
    document,       \* the browser's document: fullscreenElement, requests pending
    single          \* the one SlideBackground of the single-background revision

vars == <<rcall, currentSlide, imageUrl, loading, errorStatus, fetches,
          lastFetch, effectPending, mounted, isFullscreen, document, single>>

\* what PresentationApp's fullscreen toggle and the single-background
\* revision add to the state
appVars == <<isFullscreen, document, single>>

\* the deck's navigation and its per-slide backgrounds
ctlVars_slides == <<currentSlide, imageUrl, loading, errorStatus, fetches,
                    lastFetch, effectPending, mounted>>

ctlVars == <<ctlVars_slides, appVars>>

-----------------------------------------------------------------------------
(* Bounds *)

MaxN == 4           \* largest maxRetries tried in SpecRetry
NumSlides == 2      \* slides in the deck (the source deck has 8)
MaxInFlight == 2    \* cap on simultaneously awaited fetchImage calls per slide

(* Program constants *)

DefaultMaxRetries == 3
DefaultInitialDelay == 2000

None == "undefined"

-----------------------------------------------------------------------------
(* Strings: String.prototype.toLowerCase and String.prototype.includes *)

UpperLetters ==
    <<"A","B","C","D","E","F","G","H","I","J","K","L","M",
      "N","O","P","Q","R","S","T","U","V","W","X","Y","Z">>

LowerLetters ==
    <<"a","b","c","d","e","f","g","h","i","j","k","l","m",
      "n","o","p","q","r","s","t","u","v","w","x","y","z">>

toLowerCaseChar(ch) ==
    IF \E k \in 1..26 : UpperLetters[k] = ch
    THEN LowerLetters[CHOOSE k \in 1..26 : UpperLetters[k] = ch]
    ELSE ch

toLowerCase(s) == [k \in 1..Len(s) |-> toLowerCaseChar(s[k])]

includes(s, sub) ==
    \E k \in 0..(Len(s) - Len(sub)) : SubSeq(s, k + 1, k + Len(sub)) = sub

RpcFailed == <<"r","p","c"," ","f","a","i","l","e","d">>
InternalError == <<"i","n","t","e","r","n","a","l"," ","e","r","r","o","r">>
UnknownError == <<"U","n","k","n","o","w","n"," ","e","r","r","o","r">>

-----------------------------------------------------------------------------
(* Failures the operation can raise.  status/message are the error's own   *)
(* fields, estatus/emessage those of its nested .error object.             *)

Err(st, msg, est, emsg) ==
    [status |-> st, message |-> msg, estatus |-> est, emessage |-> emsg]

MsgRpc == <<"R","P","C"," ","F","a","i","l","e","d">>
MsgInternal == <<"A","n"," ","I","n","t","e","r","n","a","l"," ","E","r","r","o","r">>
MsgBad == <<"B","a","d"," ","r","e","q">>

E429 == Err("429", MsgBad, None, <<>>)
E500 == Err("500", MsgBad, None, <<>>)
E503 == Err("503", MsgBad, None, <<>>)
E400 == Err("400", MsgBad, None, <<>>)
E403 == Err("403", <<>>, None, <<>>)
EExhausted == Err("RESOURCE_EXHAUSTED", MsgBad, None, <<>>)
EInternal == Err("INTERNAL", <<>>, None, <<>>)
EUnknown == Err("UNKNOWN", MsgBad, None, <<>>)
ENested429 == Err(None, <<>>, "429", MsgBad)
ENested400 == Err(None, <<>>, "400", MsgBad)
EPlain == Err(None, <<>>, None, <<>>)
EZero == Err("0", <<>>, None, <<>>)
EMsgOnly == Err(None, MsgBad, None, <<>>)
ERpcMsg == Err(None, MsgRpc, None, <<>>)
E400Internal == Err("400", MsgInternal, None, <<>>)
ENestedMsg == Err("400", <<>>, None, MsgInternal)

Errors ==
    {E429, E500, E503, E400, E403, EExhausted, EInternal, EUnknown,
     ENested429, ENested400, EPlain, EZero, EMsgOnly, ERpcMsg, E400Internal,
     ENestedMsg}

\* truthiness of a status slot and of a message slot, as `||` tests them
TruthyStatus(v) == v # None /\ v # "" /\ v # "0"

TruthyMessage(m) == m # <<>>

-----------------------------------------------------------------------------
(* Responses of ai.models.generateContent: candidates[0].content.parts, or *)
(* no candidates at all.                                                   *)

TextPart == [inlineData |-> None]
ImagePart(d) == [inlineData |-> d]

Response(hasCandidates, parts) == [candidates |-> hasCandidates, parts |-> parts]

Responses ==
    {Response(FALSE, <<>>),
     Response(TRUE, <<>>),
     Response(TRUE, <<TextPart>>),
     Response(TRUE, <<TextPart, ImagePart("imgA")>>),
     Response(TRUE, <<ImagePart("imgB"), ImagePart("imgA")>>)}

-----------------------------------------------------------------------------
(* fetchWithRetry *)

Variants == {"v44", "v600"}

\* src/index.tsx:55  const status = error?.status || error?.error?.status;
status_v44(error) ==
    IF TruthyStatus(error.status) THEN error.status ELSE error.estatus

\* src/index.tsx:611 const status = error?.status || error?.error?.status || 500;
status_v600(error) ==
    IF TruthyStatus(error.status) THEN error.status
    ELSE IF TruthyStatus(error.estatus) THEN error.estatus
    ELSE "500"

\* src/index.tsx:56  const message = error?.message || error?.error?.message || "";
message_v44(error) ==
    IF TruthyMessage(error.message) THEN error.message
    ELSE IF TruthyMessage(error.emessage) THEN error.emessage
    ELSE <<>>

\* src/index.tsx:612 const message = error?.message || error?.error?.message || "Unknown error";
message_v600(error) ==
    IF TruthyMessage(error.message) THEN error.message
    ELSE IF TruthyMessage(error.emessage) THEN error.emessage
    ELSE UnknownError

\* src/index.tsx:58-65
isRetryable_v44(st, msg) ==
    \/ st = "RESOURCE_EXHAUSTED"
    \/ st = "429"
    \/ st = "500"
    \/ st = "INTERNAL"
    \/ st = "UNKNOWN"
    \/ includes(toLowerCase(msg), RpcFailed)
    \/ includes(toLowerCase(msg), InternalError)

isRetryable_v600_and400(st, msg) ==
    \/ st = "RESOURCE_EXHAUSTED"
    \/ st = "429"
    \/ st = "500"
    \/ st = "400"
    \/ st = "INTERNAL"
    \/ includes(toLowerCase(msg), RpcFailed)
    \/ includes(toLowerCase(msg), InternalError)

isRetryable_v600_only500(st, msg) ==
    \/ st = "RESOURCE_EXHAUSTED"
    \/ st = "500"
    \/ st = "INTERNAL"
    \/ includes(toLowerCase(msg), RpcFailed)
    \/ includes(toLowerCase(msg), InternalError)

\* src/index.tsx:614-620
isRetryable_v600(st, msg) ==
    \/ st = "RESOURCE_EXHAUSTED"
    \/ st = "429"
    \/ st = "500"
    \/ st = "INTERNAL"
    \/ includes(toLowerCase(msg), RpcFailed)
    \/ includes(toLowerCase(msg), InternalError)

isRetryable_always(variant, error) == TRUE

\* the classification made in the catch block of the given copy
isRetryable(variant, error) ==
    IF variant = "v600"
    THEN isRetryable_v600(status_v600(error), message_v600(error))
    ELSE isRetryable_v44(status_v44(error), message_v44(error))

RECURSIVE pow(_, _)
pow(b, e) == IF e = 0 THEN 1 ELSE b * pow(b, e - 1)

delay_shifted(initialDelay, i) == initialDelay * pow(2, i + 1)

\* const delay = initialDelay * Math.pow(2, i)
delay(initialDelay, i) == initialDelay * pow(2, i)

shouldRetry_offByOne(c, error) ==
    c.i < c.maxRetries /\ isRetryable(c.variant, error)

shouldRetry_early(c, error) ==
    c.i < c.maxRetries - 2 /\ isRetryable(c.variant, error)

\* if (i < maxRetries - 1 && isRetryable)
shouldRetry(c, error) ==
    c.i < c.maxRetries - 1 /\ isRetryable(c.variant, error)

\* The call on entry: lastError undefined, i = 0, and fn() invoked if the
\* loop is entered at all; otherwise `throw lastError` with nothing caught.
fetchWithRetry(variant, maxRetries, initialDelay) ==
    [variant |-> variant, maxRetries |-> maxRetries,
     initialDelay |-> initialDelay,
     i |-> 0,
     pc |-> IF 0 < maxRetries THEN "fn" ELSE "thrown",
     lastError |-> <<>>,
     delay |-> 0,
     invocations |-> IF 0 < maxRetries THEN 1 ELSE 0,
     delays |-> <<>>,
     result |-> <<>>]

fnResolves_onceMore(c, value) ==
    [c EXCEPT !.pc = "returned", !.result = <<value>>, !.invocations = @ + 1]

\* `return await fn()` when fn's promise fulfils
fnResolves(c, value) ==
    [c EXCEPT !.pc = "returned", !.result = <<value>>]

fnRejects_keepFirst(c, error) ==
    LET kept == IF c.lastError = <<>> THEN <<error>> ELSE c.lastError
    IN  IF shouldRetry(c, error)
        THEN [c EXCEPT !.lastError = kept,
                       !.delay = delay(c.initialDelay, c.i),
                       !.pc = "timer"]
        ELSE [c EXCEPT !.lastError = kept, !.pc = "thrown"]

\* the catch block when fn's promise rejects
fnRejects(c, error) ==
    IF shouldRetry(c, error)
    THEN [c EXCEPT !.lastError = <<error>>,
                   !.delay = delay(c.initialDelay, c.i),
                   !.pc = "timer"]
    ELSE [c EXCEPT !.lastError = <<error>>, !.pc = "thrown"]

timerFires_givesUp(c) ==
    [c EXCEPT !.delays = Append(c.delays, c.delay), !.i = c.i + 1, !.pc = "thrown"]

timerFires_rearms(c) == c

\* the setTimeout promise resolves: continue; i++; the loop test; fn() again
timerFires(c) ==
    LET waited == [c EXCEPT !.delays = Append(c.delays, c.delay), !.i = c.i + 1]
    IN  IF waited.i < waited.maxRetries
        THEN [waited EXCEPT !.pc = "fn", !.invocations = c.invocations + 1]
        ELSE [waited EXCEPT !.pc = "thrown"]

-----------------------------------------------------------------------------
(* SpecRetry: one fetchWithRetry call, any policy, any operation.  The     *)
(* call record carries two more fields here: raised, the failure the most  *)
(* recent invocation of the operation rejected with, and fulfilled, the    *)
(* value an invocation of the operation resolved with.                     *)

InitialDelays == {500, DefaultInitialDelay}

Slides == 0..(NumSlides - 1)

\* useState(false); a document not in fullscreen; and, where the deck has
\* one SlideBackground per slide, no single one
AppIdle ==
    /\ isFullscreen = FALSE
    /\ document = [fullscreenElement |-> FALSE, pending |-> <<>>]
    /\ single = <<>>

CtlIdle ==
    /\ currentSlide = 0
    /\ imageUrl = [s \in Slides |-> <<>>]
    /\ loading = [s \in Slides |-> FALSE]
    /\ errorStatus = [s \in Slides |-> <<>>]
    /\ fetches = [s \in Slides |-> <<>>]
    /\ lastFetch = [s \in Slides |-> <<>>]
    /\ effectPending = FALSE
    /\ mounted = FALSE
    /\ AppIdle

InitRetry ==
    /\ \E variant \in Variants, maxRetries \in 1..MaxN, initialDelay \in InitialDelays :
          rcall = <<[raised |-> <<>>, fulfilled |-> <<>>] @@
                    fetchWithRetry(variant, maxRetries, initialDelay)>>
    /\ CtlIdle

RetryFnResolves ==
    /\ Len(rcall) = 1 /\ rcall[1].pc = "fn"
    /\ \E value \in Responses :
          rcall' = <<[fnResolves(rcall[1], value) EXCEPT !.fulfilled = <<value>>]>>
    /\ UNCHANGED ctlVars

RetryFnRejects ==
    /\ Len(rcall) = 1 /\ rcall[1].pc = "fn"
    /\ \E error \in Errors :
          rcall' = <<[fnRejects(rcall[1], error) EXCEPT !.raised = <<error>>]>>
    /\ UNCHANGED ctlVars

RetryTimerFires ==
    /\ Len(rcall) = 1 /\ rcall[1].pc = "timer"
    /\ rcall' = <<timerFires(rcall[1])>>
    /\ UNCHANGED ctlVars

NextRetry == RetryFnResolves \/ RetryFnRejects \/ RetryTimerFires

SpecRetry == InitRetry /\ [][NextRetry]_vars

-----------------------------------------------------------------------------
(* Properties of fetchWithRetry, checked under SpecRetry *)

rc == rcall[1]

\* the message the failure carries, its own or its nested one, names an
\* internal RPC failure, in any letter case
MentionsRpcOrInternal(error) ==
    \E m \in {error.message, error.emessage} :
        \/ includes(toLowerCase(m), RpcFailed)
        \/ includes(toLowerCase(m), InternalError)

\* C2: for every maxRetries = n >= 1, an operation that keeps failing with a
\* retryable failure (status 429, 500, RESOURCE_EXHAUSTED or INTERNAL) is
\* invoked exactly n times, never more, and then the failure is propagated:
\* the call never gives up on such a failure before the n-th invocation.
T_C2_ExhaustsBudget ==
    /\ rc.invocations <= rc.maxRetries
    /\ (rc.pc = "thrown" /\ Len(rc.lastError) = 1
          /\ rc.lastError[1].status \in {"429", "500", "RESOURCE_EXHAUSTED", "INTERNAL"})
       => /\ rc.invocations = rc.maxRetries
          /\ rc.result = <<>>

W_C2_ExhaustsBudget ==
    /\ rc.pc = "thrown"
    /\ rc.maxRetries = 3
    /\ rc.invocations = 3
    /\ rc.lastError = <<E429>>

\* C3: with maxRetries >= 2, a first invocation that fails with a
\* non-retryable failure (status 400 or 403, no RPC/internal-error message)
\* ends the call: one invocation, no backoff delay computed or waited, and
\* that failure is the one propagated.
T_C3_TerminalFirstFailure ==
    (/\ rc.maxRetries >= 2
     /\ rc.invocations = 1
     /\ Len(rc.lastError) = 1
     /\ rc.lastError[1].status \in {"400", "403"}
     /\ ~MentionsRpcOrInternal(rc.lastError[1]))
    => /\ rc.pc = "thrown"
       /\ rc.delays = <<>>
       /\ rc.delay = 0
       /\ rc.i = 0

W_C3_TerminalFirstFailure ==
    /\ rc.maxRetries >= 2
    /\ rc.pc = "thrown"
    /\ rc.invocations = 1
    /\ rc.lastError = <<E400>>

\* C8: the k-th delay waited (k = 1 is the wait before retry 0) is
\* initialDelay for k = 1 and twice the previous delay after that, i.e.
\* initialDelay * 2^i before retry i; at most maxRetries - 1 delays are
\* waited; with the default policy the delays are 2000 then 4000.
T_C8_DelayDoubles ==
    /\ Len(rc.delays) <= rc.maxRetries - 1
    /\ \A k \in 1..Len(rc.delays) :
          rc.delays[k] = IF k = 1 THEN rc.initialDelay ELSE 2 * rc.delays[k - 1]
    /\ rc.pc = "timer" =>
          rc.delay = IF rc.delays = <<>> THEN rc.initialDelay
                     ELSE 2 * rc.delays[Len(rc.delays)]
    /\ (/\ rc.maxRetries = DefaultMaxRetries
        /\ rc.initialDelay = DefaultInitialDelay
        /\ rc.invocations = DefaultMaxRetries)
       => rc.delays = <<2000, 4000>>

W_C8_DelayDoubles ==
    /\ rc.maxRetries = DefaultMaxRetries
    /\ rc.initialDelay = DefaultInitialDelay
    /\ rc.delays = <<2000, 4000>>

\* C11: when the call gives up, the failure it throws is the one the last
\* invocation of the operation raised, whatever the earlier invocations
\* had raised.
T_C11_ThrowsLastFailure ==
    rc.pc = "thrown" => (rc.lastError # <<>> /\ rc.lastError = rc.raised)

\* given up at the third invocation on a 503, after two other failures
W_C11_ThrowsLastFailure ==
    /\ rc.pc = "thrown"
    /\ rc.invocations = 3
    /\ rc.lastError = <<E503>>
    /\ rc.raised = <<E503>>

\* the status a failure carries: its own, else that of its nested error
CarriedStatus(error) ==
    IF TruthyStatus(error.status) THEN error.status ELSE error.estatus

\* the retryable set as C9 states it
ClaimedRetryable(error) ==
    \/ CarriedStatus(error) \in {"RESOURCE_EXHAUSTED", "429", "INTERNAL", "UNKNOWN"}
    \/ CarriedStatus(error) \in {"500", "501", "502", "503", "504"}
    \/ MentionsRpcOrInternal(error)

\* C9: a failure whose status is RESOURCE_EXHAUSTED, 429, an HTTP 500-class
\* code, INTERNAL or UNKNOWN, or whose message mentions "rpc failed" or
\* "internal error" in any case, is retried while attempts remain: the call
\* gives up on such a failure only at the maxRetries-th invocation.
CX_C9_ClaimedRetryableIsRetried ==
    (rc.pc = "thrown" /\ Len(rc.lastError) = 1 /\ ClaimedRetryable(rc.lastError[1]))
    => rc.invocations = rc.maxRetries

\* C10: every failure outside the retryable set (any other status, or no
\* status and no RPC/internal-error message) is terminal: once it is caught
\* the call throws, with no delay scheduled and no further invocation.
CX_C10_OtherFailuresTerminal ==
    (Len(rc.lastError) = 1 /\ ~ClaimedRetryable(rc.lastError[1]))
    => rc.pc = "thrown"

-----------------------------------------------------------------------------
(* SlideBackground (src/index.tsx:713-752), one per slide, and the         *)
(* navigation of PresentationApp.  null of imageUrl/errorStatus is <<>>.   *)

MissingData ==
    <<"M","i","s","s","i","n","g"," ","b","i","n","a","r","y"," ",
      "a","s","s","e","t"," ","d","a","t","a",".">>
GenerationFailed ==
    <<"G","e","n","e","r","a","t","i","o","n"," ","F","a","i","l","e","d">>

\* what the Image Generation Client is taken to answer in Spec
ClientErrors == {E429, E400, EPlain}

ClientResponses ==
    {Response(FALSE, <<>>),
     Response(TRUE, <<>>),
     Response(TRUE, <<TextPart, ImagePart("imgA")>>),
     Response(TRUE, <<ImagePart("imgB"), ImagePart("imgA")>>)}

slideState(s) ==
    [imageUrl |-> imageUrl[s], loading |-> loading[s], errorStatus |-> errorStatus[s]]

isActive_always(s, cur) == TRUE

\* <SlideBackground ... isActive={i === currentSlide} />
isActive(s, cur) == s = cur

EffectCondition_ignoresState(active, st) == active /\ ~st.loading

EffectCondition_noErrorCheck(active, st) ==
    active /\ st.imageUrl = <<>> /\ ~st.loading

EffectCondition_noImageCheck(active, st) ==
    active /\ ~st.loading /\ st.errorStatus = <<>>

\* if (isActive && !imageUrl && !loading && !errorStatus)
EffectCondition(active, st) ==
    active /\ st.imageUrl = <<>> /\ ~st.loading /\ st.errorStatus = <<>>

\* fetchImage: `if (loading) return;` -- does this call go on to fetch?
fetchImageProceeds(st) == ~st.loading

fetchImageBegin_keepError(st) ==
    IF st.loading THEN st ELSE [st EXCEPT !.loading = TRUE]

fetchImageBegin_noFlag(st) ==
    IF st.loading THEN st ELSE [st EXCEPT !.errorStatus = <<>>]

\* fetchImage up to its await: setLoading(true); setErrorStatus(null)
fetchImageBegin(st) ==
    IF st.loading THEN st
    ELSE [st EXCEPT !.loading = TRUE, !.errorStatus = <<>>]

\* response.candidates?.[0]?.content?.parts?.find(p => p.inlineData)
findInlineData(response) ==
    IF response.candidates
         /\ \E k \in 1..Len(response.parts) : response.parts[k].inlineData # None
    THEN <<response.parts[CHOOSE k \in 1..Len(response.parts) :
                /\ response.parts[k].inlineData # None
                /\ \A j \in 1..(k - 1) : response.parts[j].inlineData = None]>>
    ELSE <<>>

\* the catch block: `${status}: ${error?.message || "Generation Failed"}`
\* with status = error?.status || error?.error?.status || "Error"
describe(thrown) ==
    LET st == IF thrown = <<>> THEN "Error"
              ELSE IF TruthyStatus(thrown[1].status) THEN thrown[1].status
              ELSE IF TruthyStatus(thrown[1].estatus) THEN thrown[1].estatus
              ELSE "Error"
        msg == IF thrown # <<>> /\ TruthyMessage(thrown[1].message)
               THEN thrown[1].message ELSE GenerationFailed
    IN  <<st, ": ", msg>>

MissingDataError == Err(None, MissingData, None, <<>>)

fetchImageSettles_noThrow(st, c) ==
    IF c.pc = "returned"
    THEN LET part == findInlineData(c.result[1])
         IN  IF part # <<>>
             THEN [st EXCEPT !.imageUrl = <<"data:image/png;base64,", part[1].inlineData>>,
                             !.loading = FALSE]
             ELSE [st EXCEPT !.loading = FALSE]
    ELSE [st EXCEPT !.errorStatus = describe(c.lastError), !.loading = FALSE]

fetchImageSettles_noCatch(st, c) ==
    IF c.pc = "returned" /\ findInlineData(c.result[1]) # <<>>
    THEN [st EXCEPT !.imageUrl = <<"data:image/png;base64,",
                                   findInlineData(c.result[1])[1].inlineData>>,
                    !.loading = FALSE]
    ELSE [st EXCEPT !.loading = FALSE]

fetchImageSettles_noFinally(st, c) ==
    IF c.pc = "returned"
    THEN LET part == findInlineData(c.result[1])
         IN  IF part # <<>>
             THEN [st EXCEPT !.imageUrl = <<"data:image/png;base64,", part[1].inlineData>>]
             ELSE [st EXCEPT !.errorStatus = describe(<<MissingDataError>>)]
    ELSE [st EXCEPT !.errorStatus = describe(c.lastError)]

\* fetchImage after its await: the image or the thrown Error, catch, finally
fetchImageSettles(st, c) ==
    IF c.pc = "returned"
    THEN LET part == findInlineData(c.result[1])
         IN  IF part # <<>>
             THEN [st EXCEPT !.imageUrl = <<"data:image/png;base64,", part[1].inlineData>>,
                             !.loading = FALSE]
             ELSE [st EXCEPT !.errorStatus = describe(<<MissingDataError>>),
                             !.loading = FALSE]
    ELSE [st EXCEPT !.errorStatus = describe(c.lastError), !.loading = FALSE]

SetSlide_all(s, st) ==
    /\ imageUrl' = [x \in Slides |-> st.imageUrl]
    /\ loading' = [x \in Slides |-> st.loading]
    /\ errorStatus' = [x \in Slides |-> st.errorStatus]

\* write a slide's three state cells
SetSlide(s, st) ==
    /\ imageUrl' = [imageUrl EXCEPT ![s] = st.imageUrl]
    /\ loading' = [loading EXCEPT ![s] = st.loading]
    /\ errorStatus' = [errorStatus EXCEPT ![s] = st.errorStatus]

RemoveAt(seq, k) == SubSeq(seq, 1, k - 1) \o SubSeq(seq, k + 1, Len(seq))

\* createRoot(container).render(<PresentationApp />): first commit done,
\* its effects still to run
Init ==
    /\ rcall = <<>>
    /\ currentSlide = 0
    /\ imageUrl = [s \in Slides |-> <<>>]
    /\ loading = [s \in Slides |-> FALSE]
    /\ errorStatus = [s \in Slides |-> <<>>]
    /\ fetches = [s \in Slides |-> <<>>]
    /\ lastFetch = [s \in Slides |-> <<>>]
    /\ effectPending = TRUE
    /\ mounted = TRUE
    /\ AppIdle

\* what lastFetch holds from a press of the button until the client first
\* answers the fetch that press started
Retrying ==
    [outcome |-> "retrying", result |-> <<>>, thrown |-> <<>>,
     invocations |-> 0, delays |-> <<>>, active |-> TRUE]

\* one call of fetchImage() on slide s alone, with the mark it leaves in
\* lastFetch (<<Retrying>> from the button)
\* The call record carries one more field here, failures: the statuses of
\* the failures the client has answered this fetch with so far.
callFetchImage(s, mark) ==
    LET st == slideState(s)
    IN  /\ SetSlide(s, fetchImageBegin(st))
        /\ IF fetchImageProceeds(st)
           THEN /\ fetches' = [fetches EXCEPT ![s] =
                      Append(@, [failures |-> <<>>] @@
                                 fetchWithRetry("v600", DefaultMaxRetries, DefaultInitialDelay))]
                /\ lastFetch' = [lastFetch EXCEPT ![s] = mark]
           ELSE UNCHANGED <<fetches, lastFetch>>
        /\ effectPending' = (fetchImageBegin(st) # st)

\* the slides whose useEffect finds its condition true
effectFetches(cur) ==
    {s \in Slides : EffectCondition(isActive(s, cur), slideState(s))}

\* the useEffect of every slide whose dependencies changed in the last
\* commit: each one whose condition holds calls its fetchImage()
RunEffects ==
    /\ mounted /\ effectPending
    /\ \A s \in effectFetches(currentSlide) : Len(fetches[s]) < MaxInFlight
    /\ LET run == effectFetches(currentSlide)
           begun(s) == IF s \in run THEN fetchImageBegin(slideState(s))
                       ELSE slideState(s)
           starts(s) == s \in run /\ fetchImageProceeds(slideState(s))
       IN  /\ imageUrl' = [s \in Slides |-> begun(s).imageUrl]
           /\ loading' = [s \in Slides |-> begun(s).loading]
           /\ errorStatus' = [s \in Slides |-> begun(s).errorStatus]
           /\ fetches' = [s \in Slides |->
                   IF starts(s)
                   THEN Append(fetches[s], [failures |-> <<>>] @@
                           fetchWithRetry("v600", DefaultMaxRetries, DefaultInitialDelay))
                   ELSE fetches[s]]
           /\ lastFetch' = [s \in Slides |-> IF starts(s) THEN <<>> ELSE lastFetch[s]]
           /\ effectPending' = \E s \in run : begun(s) # slideState(s)
    /\ UNCHANGED <<appVars, rcall, currentSlide, mounted>>

Min_unclamped(a, b) == a

Min(a, b) == IF a < b THEN a ELSE b
Max(a, b) == IF a > b THEN a ELSE b

\* a commit changes isActive of two slides exactly when currentSlide changes
\* setCurrentSlide(prev => Math.min(prev + 1, slides.length - 1))
nextSlide ==
    /\ mounted /\ ~effectPending
    /\ currentSlide' = Min(currentSlide + 1, NumSlides - 1)
    /\ effectPending' = (currentSlide' # currentSlide)
    /\ UNCHANGED <<appVars, rcall, imageUrl, loading, errorStatus, fetches, lastFetch, mounted>>

\* setCurrentSlide(prev => Math.max(prev - 1, 0))
prevSlide ==
    /\ mounted /\ ~effectPending
    /\ currentSlide' = Max(currentSlide - 1, 0)
    /\ effectPending' = (currentSlide' # currentSlide)
    /\ UNCHANGED <<appVars, rcall, imageUrl, loading, errorStatus, fetches, lastFetch, mounted>>

\* the dot buttons: onClick={() => setCurrentSlide(i)}
setCurrentSlide(i) ==
    /\ mounted /\ ~effectPending
    /\ currentSlide' = i
    /\ effectPending' = (currentSlide' # currentSlide)
    /\ UNCHANGED <<appVars, rcall, imageUrl, loading, errorStatus, fetches, lastFetch, mounted>>

regenerateButtonRendered_always(active, st) == TRUE

regenerateButtonRendered_anyState(active, st) == active /\ ~st.loading

\* the RE-GENERATE ASSET button is rendered in the branch without image,
\* when errorStatus && isActive && !loading
regenerateButtonRendered(active, st) ==
    st.imageUrl = <<>> /\ st.errorStatus # <<>> /\ active /\ ~st.loading

\* a press of the RE-GENERATE ASSET button: onClick={() => fetchImage()}
clickRegenerate(s) ==
    /\ mounted /\ ~effectPending
    /\ regenerateButtonRendered(isActive(s, currentSlide), slideState(s))
    /\ callFetchImage(s, <<Retrying>>)
    /\ UNCHANGED <<appVars, rcall, currentSlide, mounted>>

\* what is remembered of a finished fetchImage: how fetchWithRetry ended
\* (its result or the failure it threw), how often it invoked the client,
\* the delays it waited, and whether the slide was active at that moment
Finished(c, active) ==
    [outcome |-> c.pc,
     result |-> c.result,
     thrown |-> IF c.pc = "thrown" THEN c.lastError ELSE <<>>,
     invocations |-> c.invocations,
     delays |-> c.delays,
     active |-> active]

\* fetchWithRetry has returned or thrown: fetchImage's continuation runs
Settle(s, k, c) ==
    /\ SetSlide(s, fetchImageSettles(slideState(s), c))
    /\ fetches' = [fetches EXCEPT ![s] = RemoveAt(@, k)]
    /\ lastFetch' = [lastFetch EXCEPT ![s] = <<Finished(c, isActive(s, currentSlide))>>]
    /\ effectPending' = mounted

\* generateContent's promise fulfils
ClientResolves(s, k) ==
    /\ ~(mounted /\ effectPending)
    /\ k \in 1..Len(fetches[s]) /\ fetches[s][k].pc = "fn"
    /\ \E value \in ClientResponses : Settle(s, k, fnResolves(fetches[s][k], value))
    /\ UNCHANGED <<appVars, rcall, currentSlide, mounted>>

\* generateContent's promise rejects
ClientRejects(s, k) ==
    /\ ~(mounted /\ effectPending)
    /\ k \in 1..Len(fetches[s]) /\ fetches[s][k].pc = "fn"
    /\ \E error \in ClientErrors :
          LET c == fnRejects(fetches[s][k], error)
          IN  IF c.pc = "thrown"
              THEN Settle(s, k, c)
              ELSE /\ fetches' = [fetches EXCEPT ![s][k] =
                                     [c EXCEPT !.failures = Append(@, status_v600(error))]]
                   /\ lastFetch' = [lastFetch EXCEPT ![s] = <<>>]
                   /\ UNCHANGED <<imageUrl, loading, errorStatus, effectPending>>
    /\ UNCHANGED <<appVars, rcall, currentSlide, mounted>>

\* the backoff timer of a waiting fetchWithRetry fires
BackoffElapses(s, k) ==
    /\ ~(mounted /\ effectPending)
    /\ k \in 1..Len(fetches[s]) /\ fetches[s][k].pc = "timer"
    /\ LET c == timerFires(fetches[s][k])
       IN  IF c.pc = "thrown"
           THEN Settle(s, k, c)
           ELSE /\ fetches' = [fetches EXCEPT ![s][k] = c]
                /\ UNCHANGED <<imageUrl, loading, errorStatus, lastFetch, effectPending>>
    /\ UNCHANGED <<appVars, rcall, currentSlide, mounted>>

\* the SlideBackground components are unmounted (the root is torn down)
Dispose ==
    /\ mounted
    /\ mounted' = FALSE
    /\ effectPending' = FALSE
    /\ UNCHANGED <<appVars, rcall, currentSlide, imageUrl, loading, errorStatus, fetches, lastFetch>>

Next ==
    \/ RunEffects
    \/ nextSlide
    \/ prevSlide
    \/ \E i \in Slides : setCurrentSlide(i)
    \/ \E s \in Slides : clickRegenerate(s)
    \/ \E s \in Slides, k \in 1..MaxInFlight : ClientResolves(s, k)
    \/ \E s \in Slides, k \in 1..MaxInFlight : ClientRejects(s, k)
    \/ \E s \in Slides, k \in 1..MaxInFlight : BackoffElapses(s, k)
    \/ Dispose

Spec == Init /\ [][Next]_vars

\* React runs the passive effects of a commit; every generateContent call is
\* answered and every timer fires, however often effects run in between
Fairness ==
    /\ WF_vars(RunEffects)
    /\ \A s \in Slides :
          /\ SF_vars(\E k \in 1..MaxInFlight : ClientResolves(s, k) \/ ClientRejects(s, k))
          /\ SF_vars(\E k \in 1..MaxInFlight : BackoffElapses(s, k))

\* the first and the last slide of the deck
Ends == {0, NumSlides - 1}

\* a presenter who jumps between the first and the last slide by their dot
\* buttons: two controllers fetch, fail, are retried and finish side by side
NextLive ==
    \/ RunEffects
    \/ \E i \in Ends : setCurrentSlide(i)
    \/ \E s \in Slides : clickRegenerate(s)
    \/ \E s \in Slides, k \in 1..MaxInFlight : ClientResolves(s, k)
    \/ \E s \in Slides, k \in 1..MaxInFlight : ClientRejects(s, k)
    \/ \E s \in Slides, k \in 1..MaxInFlight : BackoffElapses(s, k)
    \/ Dispose

SpecLive == Init /\ [][NextLive]_vars /\ Fairness

-----------------------------------------------------------------------------
(* Properties of SlideBackground, checked under Spec *)

\* C1: a slide never has two fetches in flight, and loading is true exactly
\* while its one fetch is in flight, whatever navigation, effect re-runs
\* and button presses occur meanwhile.
T_C1_OneFetchInFlight ==
    \A s \in Slides :
        /\ Len(fetches[s]) <= 1
        /\ loading[s] <=> (Len(fetches[s]) = 1)

\* slide 0 was made active at start and again after slide 1 had been shown,
\* both slides still loading: slide 0 still has exactly its first fetch
W_C1_OneFetchInFlight ==
    /\ mounted /\ ~effectPending
    /\ currentSlide = 0
    /\ loading[0] /\ loading[1]
    /\ Len(fetches[0]) = 1
    /\ fetches[0][1].invocations = 1

Failed(s) == errorStatus[s] # <<>> /\ ~loading[s] /\ fetches[s] = <<>>

\* C4: a slide in the Failed state (error set, nothing in flight) starts a
\* fetch only by a press of its RE-GENERATE ASSET button: no navigation
\* away and back, and no effect run, takes it out of Failed.
T_C4_FailedNeedsExplicitRetry ==
    [][\A s \in Slides :
          (Failed(s) /\ (fetches'[s] # <<>> \/ loading'[s] \/ errorStatus'[s] = <<>>))
          => clickRegenerate(s)]_vars

\* slide 0 failed while another slide was shown, is shown again, its effect
\* has run, and it is still Failed with nothing in flight
W_C4_FailedNeedsExplicitRetry ==
    /\ mounted /\ ~effectPending
    /\ currentSlide = 0
    /\ Failed(0)
    /\ lastFetch[0] # <<>> /\ ~lastFetch[0][1].active

NoImagePart(response) ==
    \/ ~response.candidates
    \/ \A k \in 1..Len(response.parts) : response.parts[k].inlineData = None

MissingOutcome(s) ==
    /\ lastFetch[s] # <<>>
    /\ lastFetch[s][1].outcome = "returned"
    /\ NoImagePart(lastFetch[s][1].result[1])

\* C6: a fetch whose client call succeeded with a response without image
\* part leaves the slide Failed with the description
\* "Error: Missing binary asset data.", nothing in flight; the response was
\* not retried (one client invocation when no failure preceded it, one per
\* waited delay plus this one otherwise); and no fetch starts afterwards
\* except by the button.
T_C6_MissingDataFails ==
    /\ [](\A s \in Slides :
            MissingOutcome(s) =>
               /\ errorStatus[s] = <<"Error", ": ", MissingData>>
               /\ imageUrl[s] = <<>>
               /\ ~loading[s]
               /\ fetches[s] = <<>>
               /\ lastFetch[s][1].invocations = Len(lastFetch[s][1].delays) + 1
               /\ (lastFetch[s][1].delays = <<>> => lastFetch[s][1].invocations = 1))
    /\ [][\A s \in Slides :
            (MissingOutcome(s) /\ fetches'[s] # <<>>) => clickRegenerate(s)]_vars

\* slide 0: first client call answered with zero parts, effect has run
W_C6_MissingDataFails ==
    /\ mounted /\ ~effectPending
    /\ currentSlide = 0
    /\ lastFetch[0] # <<>>
    /\ lastFetch[0][1].result = <<Response(TRUE, <<>>)>>
    /\ lastFetch[0][1].invocations = 1
    /\ errorStatus[0] = <<"Error", ": ", MissingData>>
    /\ fetches[0] = <<>>

\* C7: navigation cancels no fetch in flight; a fetch that finishes while
\* its slide is not the one shown still sets that slide's image or error and
\* clears loading; and a slide whose image is set never starts a fetch, in
\* particular not when it is shown again.
T_C7_ResultAppliedWhenInactive ==
    [][\A s \in Slides :
          /\ (fetches[s] # <<>> /\ currentSlide' # currentSlide)
                => fetches'[s] = fetches[s]
          /\ (fetches[s] # <<>> /\ fetches'[s] = <<>> /\ currentSlide # s)
                => /\ ~loading'[s]
                   /\ imageUrl'[s] # <<>> \/ errorStatus'[s] # <<>>
                   /\ lastFetch'[s] # <<>> /\ ~lastFetch'[s][1].active
          /\ (imageUrl[s] # <<>> /\ fetches[s] = <<>>)
                => (fetches'[s] = <<>> /\ imageUrl'[s] = imageUrl[s])]_vars

\* slide 0 got its image while another slide was shown, is shown again, its
\* effect has run and nothing was fetched anew
W_C7_ResultAppliedWhenInactive ==
    /\ mounted /\ ~effectPending
    /\ currentSlide = 0
    /\ imageUrl[0] # <<>>
    /\ lastFetch[0] # <<>> /\ ~lastFetch[0][1].active
    /\ fetches[0] = <<>> /\ ~loading[0]

\* C12: a press of the button in the Failed state (the only step that
\* changes a Failed slide) leaves the slide loading with the error cleared,
\* no image, and exactly one fetch at its first client invocation; while a
\* fetch is in flight no step starts another one: the fetch in flight only
\* advances or ends.
T_C12_RetryFromFailed ==
    [][\A s \in Slides :
          /\ (Failed(s) /\ <<imageUrl'[s], loading'[s], errorStatus'[s], fetches'[s]>>
                             # <<imageUrl[s], loading[s], errorStatus[s], fetches[s]>>)
                => /\ loading'[s]
                   /\ errorStatus'[s] = <<>>
                   /\ imageUrl'[s] = <<>>
                   /\ Len(fetches'[s]) = 1
                   /\ fetches'[s][1].pc = "fn"
                   /\ fetches'[s][1].invocations = 1
                   /\ lastFetch'[s] = <<Retrying>>
          /\ (loading[s] /\ Len(fetches[s]) = 1 /\ fetches'[s] # fetches[s])
                => \/ fetches'[s] = <<>>
                   \/ /\ Len(fetches'[s]) = 1
                      /\ \/ fetches'[s][1].i > fetches[s][1].i
                         \/ fetches[s][1].pc = "fn" /\ fetches'[s][1].pc = "timer"]_vars

\* slide 0 after a press of its button, the effect of that commit has run
\* and found nothing to start: one fetch, loading, no error
W_C12_RetryFromFailed ==
    /\ mounted /\ ~effectPending
    /\ currentSlide = 0
    /\ lastFetch[0] = <<Retrying>>
    /\ loading[0] /\ errorStatus[0] = <<>>
    /\ Len(fetches[0]) = 1 /\ fetches[0][1].invocations = 1

Loaded(s) == imageUrl[s] # <<>> /\ ~loading[s]

\* C13: in the Loaded state the button is not rendered, so no retry request
\* reaches fetchImage: every step leaves a Loaded slide Loaded with the same
\* image, no error, and no fetch, hence no client invocation.
T_C13_NoRetryWhenLoaded ==
    [][\A s \in Slides :
          Loaded(s) =>
             /\ imageUrl'[s] = imageUrl[s]
             /\ ~loading'[s]
             /\ errorStatus'[s] = <<>>
             /\ fetches'[s] = <<>>
             /\ lastFetch'[s] = lastFetch[s]]_vars

\* slide 0 is shown, Loaded, its effects have run: where the user would ask
\* for a retry, the button is absent
W_C13_NoRetryWhenLoaded ==
    /\ mounted /\ ~effectPending
    /\ currentSlide = 0
    /\ Loaded(0)
    /\ ~regenerateButtonRendered(isActive(0, currentSlide), slideState(0))
    /\ ~ENABLED clickRegenerate(0)

\* the failures of the client so far are 429s, at most two of them
Only429s(c) == c.failures \in {<<>>, <<"429">>, <<"429", "429">>}

\* the first n waits of a fetch with initialDelay = 2000
Waited(n) == SubSeq(<<2000, 4000>>, 1, n)

\* C14: a fetch (maxRetries 3, initialDelay 2000) whose client has failed
\* with 429 on its first call, or on its first two, keeps its slide Loading
\* with no error: such a failure never ends the fetch but starts a wait of
\* 2000 ms, then of 4000 ms, after which the client is invoked again; when
\* the third call returns a response with image data the slide becomes
\* Loaded with that image, after three invocations and those two waits.
T_C14_TwoRateLimitsThenImage ==
    /\ [](\A s \in Slides :
            (Len(fetches[s]) = 1 /\ Only429s(fetches[s][1])) =>
               LET c == fetches[s][1]
               IN  /\ c.maxRetries = 3 /\ c.initialDelay = 2000
                   /\ loading[s] /\ errorStatus[s] = <<>> /\ imageUrl[s] = <<>>
                   /\ c.pc = "fn" => /\ c.invocations = Len(c.failures) + 1
                                      /\ c.delays = Waited(Len(c.failures))
                   /\ c.pc = "timer" => /\ c.invocations = Len(c.failures)
                                         /\ c.delays = Waited(Len(c.failures) - 1))
    /\ [][\A s \in Slides :
            (Len(fetches[s]) = 1 /\ Only429s(fetches[s][1])
                /\ fetches'[s] # fetches[s]) =>
               LET c == fetches[s][1]
                   d == fetches'[s][1]
                   f == lastFetch'[s][1]
               IN  /\ (c.pc = "fn" /\ Len(c.failures) < 2 /\ fetches'[s] = <<>>)
                         => f.thrown # <<E429>>
                   /\ (c.pc = "fn" /\ fetches'[s] # <<>>
                          /\ d.failures = Append(c.failures, "429"))
                         => /\ d.pc = "timer"
                            /\ d.delay = IF c.failures = <<>> THEN 2000 ELSE 4000
                            /\ loading'[s] /\ errorStatus'[s] = <<>>
                   /\ c.pc = "timer"
                         => /\ Len(fetches'[s]) = 1 /\ d.pc = "fn"
                            /\ d.invocations = Len(c.failures) + 1
                            /\ d.failures = c.failures
                            /\ loading'[s] /\ errorStatus'[s] = <<>>
                   /\ (c.pc = "fn" /\ Len(c.failures) = 2 /\ fetches'[s] = <<>>
                          /\ f.outcome = "returned"
                          /\ findInlineData(f.result[1]) # <<>>)
                         => /\ imageUrl'[s] = <<"data:image/png;base64,",
                                                findInlineData(f.result[1])[1].inlineData>>
                            /\ ~loading'[s] /\ errorStatus'[s] = <<>>
                            /\ f.invocations = 3
                            /\ f.delays = <<2000, 4000>>]_vars

\* slide 0, the first fetch of the deck: two 429s answered, both waits over,
\* the third client call pending, the slide still Loading
W_C14_TwoRateLimitsThenImage ==
    /\ currentSlide = 0 /\ lastFetch[0] = <<>>
    /\ Len(fetches[0]) = 1
    /\ fetches[0][1].failures = <<"429", "429">>
    /\ fetches[0][1].pc = "fn"
    /\ fetches[0][1].invocations = 3
    /\ fetches[0][1].delays = <<2000, 4000>>
    /\ loading[0] /\ errorStatus[0] = <<>> /\ imageUrl[0] = <<>>

\* C15: a failure with status 400 on the first client call of a fetch ends
\* the fetch at once: no wait is started, and the slide goes from Loading to
\* Failed with the description "400: <message>", one client invocation and
\* no delay recorded.
T_C15_BadRequestFailsAtOnce ==
    /\ [](\A s \in Slides :
            (lastFetch[s] # <<>> /\ lastFetch[s][1].thrown = <<E400>>
                /\ lastFetch[s][1].invocations = 1)
               => /\ lastFetch[s][1].delays = <<>>
                  /\ errorStatus[s] = <<"400", ": ", MsgBad>>
                  /\ imageUrl[s] = <<>>
                  /\ ~loading[s] /\ fetches[s] = <<>>)
    /\ [][\A s \in Slides :
            (Len(fetches[s]) = 1 /\ fetches[s][1].pc = "fn"
                /\ fetches[s][1].failures = <<>> /\ fetches'[s] # fetches[s]) =>
               /\ loading[s] /\ errorStatus[s] = <<>>
               /\ fetches'[s] # <<>> =>
                     /\ Len(fetches'[s]) = 1
                     /\ fetches'[s][1].failures # <<"400">>
               /\ (fetches'[s] = <<>> /\ lastFetch'[s][1].thrown = <<E400>>) =>
                     /\ lastFetch'[s][1].invocations = 1
                     /\ lastFetch'[s][1].delays = <<>>
                     /\ errorStatus'[s] = <<"400", ": ", MsgBad>>
                     /\ ~loading'[s]]_vars

\* slide 0, first fetch of the deck, answered 400 on its first call
W_C15_BadRequestFailsAtOnce ==
    /\ mounted /\ ~effectPending
    /\ currentSlide = 0
    /\ lastFetch[0] # <<>>
    /\ lastFetch[0][1].thrown = <<E400>>
    /\ lastFetch[0][1].invocations = 1
    /\ lastFetch[0][1].delays = <<>>
    /\ Failed(0)

\* the variant a slide's three cells stand for
Variant(st) ==
    IF st.loading THEN "Loading"
    ELSE IF st.imageUrl # <<>> THEN "Loaded"
    ELSE IF st.errorStatus # <<>> THEN "Failed"
    ELSE "Idle"

\* C16: a slide changes variant only Idle -> Loading, Loading -> Loaded,
\* Loading -> Failed, and Failed -> Loading, the last by a press of the
\* button; a fetch starts only when none is in flight, and a step into
\* Loaded or Failed is the completion of the slide's only fetch, so two
\* completions never interleave.
T_C16_OrderedTransitions ==
    [][\A s \in Slides :
          LET v == Variant(slideState(s))
              w == Variant(slideState(s))'
          IN  /\ v # w =>
                    \/ v = "Idle" /\ w = "Loading"
                    \/ v = "Loading" /\ w \in {"Loaded", "Failed"}
                    \/ v = "Failed" /\ w = "Loading" /\ clickRegenerate(s)
              /\ (v # w /\ w \in {"Loaded", "Failed"}) =>
                    /\ Len(fetches[s]) = 1 /\ fetches'[s] = <<>>
                    /\ lastFetch'[s] # <<>>
              /\ Len(fetches'[s]) > Len(fetches[s]) =>
                    /\ fetches[s] = <<>> /\ Len(fetches'[s]) = 1
                    /\ v \in {"Idle", "Failed"} /\ w = "Loading"
              /\ Len(fetches'[s]) < Len(fetches[s]) =>
                    /\ v = "Loading" /\ w \in {"Loaded", "Failed"}]_vars

\* both ends reached from Loading: slide 0 Loaded, slide 1 Failed, each by
\* the completion of a fetch, nothing in flight
W_C16_OrderedTransitions ==
    /\ mounted /\ ~effectPending
    /\ Variant(slideState(0)) = "Loaded" /\ lastFetch[0][1].outcome = "returned"
    /\ Variant(slideState(1)) = "Failed" /\ lastFetch[1][1].outcome = "thrown"
    /\ fetches[0] = <<>> /\ fetches[1] = <<>>

\* how many of the given conditions hold
Count(conds) == Cardinality({k \in 1..Len(conds) : conds[k]})

\* C17: in every reachable state exactly one of Idle (no image, not
\* loading, no error), Loading (loading), Loaded (image set), Failed (error
\* set) holds for each slide.
T_C17_ExactlyOneVariant ==
    \A s \in Slides :
        Count(<< imageUrl[s] = <<>> /\ ~loading[s] /\ errorStatus[s] = <<>>,
                 loading[s],
                 imageUrl[s] # <<>>,
                 errorStatus[s] # <<>> >>) = 1

\* slide 1 holds an image while slide 0, which had failed, is loading again
\* after a press of its button, its error cleared
W_C17_ExactlyOneVariant ==
    /\ mounted /\ ~effectPending
    /\ currentSlide = 0
    /\ loading[0] /\ errorStatus[0] = <<>> /\ lastFetch[0] = <<Retrying>>
    /\ imageUrl[1] # <<>> /\ ~loading[1] /\ errorStatus[1] = <<>>

\* a finished fetch that failed: fetchWithRetry threw (retries exhausted or
\* a terminal failure), or the Error raised while handling its response
FailedOutcome(f) ==
    \/ f.outcome = "thrown"
    \/ f.outcome = "returned" /\ NoImagePart(f.result[1])

\* C18: every fetch that fails ends in the Failed state: the step that ends
\* it clears loading and sets a description `<status>: <message>` with both
\* parts non-empty and no image, and the slide stays so, with nothing in
\* flight, for as long as that fetch is its last one.
T_C18_FailuresEndFailed ==
    /\ [](\A s \in Slides :
            (lastFetch[s] # <<>> /\ FailedOutcome(lastFetch[s][1])) =>
               /\ ~loading[s] /\ fetches[s] = <<>>
               /\ imageUrl[s] = <<>>
               /\ Len(errorStatus[s]) = 3
               /\ errorStatus[s][1] \in {"429", "400", "Error"}
               /\ errorStatus[s][2] = ": "
               /\ errorStatus[s][3] \in {MsgBad, GenerationFailed, MissingData})
    /\ [][\A s \in Slides :
            Len(fetches'[s]) < Len(fetches[s]) =>
               /\ lastFetch'[s] # <<>>
               /\ lastFetch'[s][1].outcome \in {"returned", "thrown"}
               /\ ~loading'[s]
               /\ FailedOutcome(lastFetch'[s][1]) <=> errorStatus'[s] # <<>>
               /\ ~FailedOutcome(lastFetch'[s][1]) <=> imageUrl'[s] # <<>>]_vars

\* slide 0 gave up after three client calls that all failed with 429; slide
\* 1 failed on a response without candidates
W_C18_FailuresEndFailed ==
    /\ lastFetch[0] # <<>> /\ lastFetch[1] # <<>>
    /\ lastFetch[0][1].thrown = <<E429>>
    /\ lastFetch[0][1].invocations = 3
    /\ errorStatus[0] = <<"429", ": ", MsgBad>>
    /\ lastFetch[1][1].result = <<Response(FALSE, <<>>)>>
    /\ errorStatus[1] = <<"Error", ": ", MissingData>>
    /\ ~loading[0] /\ ~loading[1]

------------------------------------------------------------------------------
(* Further properties of fetchWithRetry, checked under SpecRetry *)

\* C19: with maxRetries = 1 the operation is invoked exactly once, no delay
\* is computed or waited, and a failure of that invocation, retryable or
\* not, is thrown as it is.
T_C19_SingleAttempt ==
    rc.maxRetries = 1 =>
        /\ rc.invocations = 1
        /\ rc.pc \in {"fn", "returned", "thrown"}
        /\ rc.delay = 0 /\ rc.delays = <<>>
        /\ rc.raised # <<>> => (rc.pc = "thrown" /\ rc.lastError = rc.raised)

\* maxRetries = 1 and the one invocation failed with 429, which either copy
\* of the helper classifies as retryable: thrown all the same
W_C19_SingleAttempt ==
    /\ rc.maxRetries = 1
    /\ rc.raised = <<E429>>
    /\ isRetryable(rc.variant, E429)
    /\ rc.pc = "thrown"
    /\ rc.invocations = 1 /\ rc.delays = <<>>

------------------------------------------------------------------------------
(* Further properties of SlideBackground, checked under Spec *)

\* all that belongs to slide s: its three cells, its fetches in flight and
\* the record of its last fetch
Own(s) == <<imageUrl[s], loading[s], errorStatus[s], fetches[s], lastFetch[s]>>

\* C20: a step that starts, advances, completes or fails a fetch of one
\* slide, or changes that slide's cells in any way, leaves the cells,
\* fetches and last-fetch record of every other slide as they were; an image
\* is set on the slide whose fetch returned it and nowhere else.
T_C20_SlidesIndependent ==
    [][\A a \in Slides :
          Own(a)' # Own(a) =>
             /\ \A b \in Slides \ {a} : Own(b)' = Own(b)
             /\ imageUrl'[a] # imageUrl[a] =>
                   /\ Len(fetches[a]) = 1 /\ fetches'[a] = <<>>
                   /\ lastFetch'[a][1].outcome = "returned"
                   /\ imageUrl'[a] = <<"data:image/png;base64,",
                          findInlineData(lastFetch'[a][1].result[1])[1].inlineData>>]_vars

\* slide 0 started its fetch first and is still at its first client call;
\* slide 1, started later and in flight at the same time, has already got
\* its image
W_C20_SlidesIndependent ==
    /\ Len(fetches[0]) = 1 /\ fetches[0][1].invocations = 1
    /\ fetches[0][1].pc = "fn" /\ lastFetch[0] = <<>>
    /\ loading[0] /\ imageUrl[0] = <<>>
    /\ lastFetch[1] # <<>> /\ lastFetch[1][1].outcome = "returned"
    /\ imageUrl[1] = <<"data:image/png;base64,", "imgB">>
    /\ ~loading[1] /\ fetches[1] = <<>>

\* nothing has happened on slide s yet: Idle, no fetch begun or finished
Untouched(s) ==
    /\ imageUrl[s] = <<>> /\ ~loading[s] /\ errorStatus[s] = <<>>
    /\ fetches[s] = <<>> /\ lastFetch[s] = <<>>

\* C21: a slide stays untouched (Idle, no fetch, hence no client
\* invocation) until a step taken while it is the slide shown, so a slide
\* never navigated to never invokes the client; that step is the run of its
\* effect and starts exactly one fetch, at its first client invocation; and
\* no shown slide is left Idle once its effect has run.
T_C21_LazyFetch ==
    /\ [](\A s \in Slides :
            (mounted /\ ~effectPending /\ s = currentSlide)
               => ~Untouched(s))
    /\ [][\A s \in Slides :
            (Untouched(s) /\ ~Untouched(s)') =>
               /\ s = currentSlide /\ currentSlide' = currentSlide
               /\ mounted /\ effectPending
               /\ loading'[s]
               /\ Len(fetches'[s]) = 1
               /\ fetches'[s][1].invocations = 1
               /\ fetches'[s][1].pc = "fn"]_vars

\* slide 1 has just been navigated to for the first time and its effect has
\* started its one fetch, while slide 0's fetch has already finished
W_C21_LazyFetch ==
    /\ mounted /\ ~effectPending
    /\ currentSlide = 1
    /\ lastFetch[0] # <<>> /\ fetches[0] = <<>>
    /\ lastFetch[1] = <<>>
    /\ loading[1] /\ Len(fetches[1]) = 1
    /\ fetches[1][1].invocations = 1 /\ fetches[1][1].failures = <<>>

------------------------------------------------------------------------------
(* Termination of a fetch, checked under SpecLive *)

\* C22: a slide that is loading eventually is not, and then holds an image
\* or an error; no fetch ever counts more than maxRetries client
\* invocations or more than maxRetries - 1 waits, in flight or finished;
\* and every step that ends a fetch leaves loading false.
T_C22_FetchTerminates ==
    /\ \A s \in Slides :
          loading[s] ~> (~loading[s] /\ (imageUrl[s] # <<>> \/ errorStatus[s] # <<>>))
    /\ [](\A s \in Slides :
            /\ \A k \in 1..Len(fetches[s]) :
                  /\ fetches[s][k].invocations <= fetches[s][k].maxRetries
                  /\ Len(fetches[s][k].delays) <= fetches[s][k].maxRetries - 1
            /\ lastFetch[s] # <<>> =>
                  /\ lastFetch[s][1].invocations <= DefaultMaxRetries
                  /\ Len(lastFetch[s][1].delays) <= DefaultMaxRetries - 1)
    /\ [][\A s \in Slides :
            Len(fetches'[s]) < Len(fetches[s]) => ~loading'[s]]_vars

\* slide 0's fetch used its whole budget: three client invocations, two
\* waits, the third answer an image; loading is false again
W_C22_FetchTerminates ==
    /\ lastFetch[0] # <<>>
    /\ lastFetch[0][1].outcome = "returned"
    /\ lastFetch[0][1].invocations = DefaultMaxRetries
    /\ Len(lastFetch[0][1].delays) = DefaultMaxRetries - 1
    /\ imageUrl[0] # <<>> /\ ~loading[0] /\ fetches[0] = <<>>

------------------------------------------------------------------------------
(* Further properties of fetchWithRetry, checked under SpecRetry *)

\* C23: when the call returns, it returns the value its last invocation of
\* the operation resolved with; that invocation is the k-th, 1 <= k <=
\* maxRetries, after k - 1 failures that were each retryable and each
\* followed by one wait; the step that returns invokes nothing, and nothing
\* happens after it.
T_C23_ReturnsFirstSuccess ==
    /\ [](rc.pc = "returned" =>
            /\ rc.fulfilled # <<>> /\ rc.result = rc.fulfilled
            /\ rc.invocations = rc.i + 1
            /\ rc.invocations \in 1..rc.maxRetries
            /\ Len(rc.delays) = rc.i
            /\ rc.i = 0 => rc.lastError = <<>>
            /\ rc.i > 0 => /\ rc.lastError = rc.raised
                           /\ isRetryable(rc.variant, rc.raised[1]))
    /\ [][/\ rc.pc = "returned" => rcall' = rcall
          /\ (rc.pc # "returned" /\ rcall'[1].pc = "returned")
                => /\ rc.pc = "fn"
                   /\ rcall'[1].invocations = rc.invocations]_vars

\* maxRetries = 3: two failures with 429, then the third invocation
\* resolved with a response holding an image, which is what was returned
W_C23_ReturnsFirstSuccess ==
    /\ rc.pc = "returned"
    /\ rc.maxRetries = 3 /\ rc.invocations = 3
    /\ rc.raised = <<E429>>
    /\ rc.fulfilled = <<Response(TRUE, <<TextPart, ImagePart("imgA")>>)>>
    /\ rc.result = rc.fulfilled

\* C24: the waits finished are always one fewer than the invocations made;
\* the end of a wait is the start of the next invocation; and a failure of
\* the maxRetries-th invocation is thrown in the same step, no wait started
\* or counted.
T_C24_WaitsOnlyBetweenInvocations ==
    /\ [](Len(rc.delays) = rc.invocations - 1)
    /\ [][/\ rc.pc = "timer" =>
                /\ rcall'[1].pc = "fn"
                /\ rcall'[1].invocations = rc.invocations + 1
                /\ rcall'[1].delays = Append(rc.delays, rc.delay)
          /\ (rc.pc = "fn" /\ rc.invocations = rc.maxRetries
                 /\ rcall' # rcall /\ rcall'[1].pc # "returned")
                => /\ rcall'[1].pc = "thrown"
                   /\ rcall'[1].delays = rc.delays
                   /\ rcall'[1].delay = rc.delay
          /\ rcall'[1].pc = "thrown" => rc.pc = "fn"]_vars

\* three invocations, all RESOURCE_EXHAUSTED, two waits of 500 and 1000 ms,
\* and the third failure thrown with no third wait
W_C24_WaitsOnlyBetweenInvocations ==
    /\ rc.pc = "thrown"
    /\ rc.maxRetries = 3 /\ rc.invocations = 3
    /\ rc.raised = <<EExhausted>>
    /\ rc.delays = <<500, 1000>>
    /\ rc.delay = 1000

------------------------------------------------------------------------------
(* Further properties of SlideBackground, checked under Spec *)

\* C25: a slide whose image is set holds the image of the first inlineData
\* part of the response its last fetch returned, has no error, is not
\* loading and has no fetch in flight; and no step, whether navigation, an
\* effect run, a completion on any slide, a button press or the unmounting,
\* changes that image or starts a fetch for that slide.
T_C25_LoadedAbsorbing ==
    /\ [](\A s \in Slides :
            imageUrl[s] # <<>> =>
               /\ errorStatus[s] = <<>> /\ ~loading[s] /\ fetches[s] = <<>>
               /\ lastFetch[s] # <<>> /\ lastFetch[s][1].outcome = "returned"
               /\ imageUrl[s] = <<"data:image/png;base64,",
                      findInlineData(lastFetch[s][1].result[1])[1].inlineData>>)
    /\ [][\A s \in Slides :
            imageUrl[s] # <<>> =>
               /\ imageUrl'[s] = imageUrl[s]
               /\ lastFetch'[s] = lastFetch[s]]_vars

\* slide 0 got its image while shown; the presenter then went to slide 1,
\* whose fetch failed, and came back: slide 0 still shows the same image
W_C25_LoadedAbsorbing ==
    /\ mounted /\ ~effectPending
    /\ currentSlide = 0
    /\ imageUrl[0] = <<"data:image/png;base64,", "imgA">>
    /\ lastFetch[0] # <<>> /\ lastFetch[0][1].active
    /\ errorStatus[1] # <<>> /\ ~loading[1]

------------------------------------------------------------------------------
(* SpecApp: PresentationApp's own controls, the keyboard, the prev/next     *)
(* buttons, the dots and the fullscreen toggle, together with the browser's *)
(* side of fullscreen, while the image client has not answered yet.         *)

KeyArrowRight == <<"A","r","r","o","w","R","i","g","h","t">>
KeyArrowLeft == <<"A","r","r","o","w","L","e","f","t">>
KeySpace == <<" ">>
KeyEnter == <<"E","n","t","e","r">>

\* e.key of the keydown events tried
Keys == {KeyArrowRight, KeyArrowLeft, KeySpace, <<"f">>, <<"F">>, KeyEnter}

\* toggleFullscreen: requestFullscreen() and exitFullscreen() only ask the
\* browser, which acts later; the flag is set at once.  The number of
\* requests the browser has not acted on yet is capped at MaxInFlight.
toggleFullscreen ==
    /\ mounted /\ ~effectPending
    /\ Len(document.pending) < MaxInFlight
    /\ IF ~document.fullscreenElement
       THEN /\ document' = [document EXCEPT !.pending = Append(@, "request")]
            /\ isFullscreen' = TRUE
       ELSE /\ document' = [document EXCEPT !.pending = Append(@, "exit")]
            /\ isFullscreen' = FALSE
    /\ UNCHANGED <<rcall, ctlVars_slides, single>>

\* the keydown listener on window
handleKeyDown(key) ==
    IF key = KeyArrowRight \/ key = KeySpace THEN nextSlide
    ELSE IF key = KeyArrowLeft THEN prevSlide
    ELSE IF toLowerCase(key) = <<"f">> THEN toggleFullscreen
    ELSE mounted /\ ~effectPending /\ UNCHANGED vars

\* the ChevronRight button: disabled={currentSlide === slides.length - 1}
clickNextButton == currentSlide # NumSlides - 1 /\ nextSlide

\* the ChevronLeft button: disabled={currentSlide === 0}
clickPrevButton == currentSlide # 0 /\ prevSlide

\* the button showing Minimize or Maximize
clickFullscreenButton == toggleFullscreen

\* the browser grants the oldest pending request: the document enters
\* fullscreen
requestFullscreenGranted ==
    /\ document.pending # <<>> /\ Head(document.pending) = "request"
    /\ document' = [fullscreenElement |-> TRUE, pending |-> Tail(document.pending)]
    /\ UNCHANGED <<rcall, ctlVars_slides, isFullscreen, single>>

\* the browser refuses it: the promise of requestFullscreen() rejects
requestFullscreenRejected ==
    /\ document.pending # <<>> /\ Head(document.pending) = "request"
    /\ document' = [document EXCEPT !.pending = Tail(@)]
    /\ UNCHANGED <<rcall, ctlVars_slides, isFullscreen, single>>

\* the browser carries out the oldest pending exitFullscreen()
exitFullscreenDone ==
    /\ document.pending # <<>> /\ Head(document.pending) = "exit"
    /\ document' = [fullscreenElement |-> FALSE, pending |-> Tail(document.pending)]
    /\ UNCHANGED <<rcall, ctlVars_slides, isFullscreen, single>>

\* the user leaves fullscreen by the browser's own means (Escape)
userLeavesFullscreen ==
    /\ document.fullscreenElement
    /\ document' = [document EXCEPT !.fullscreenElement = FALSE]
    /\ UNCHANGED <<rcall, ctlVars_slides, isFullscreen, single>>

NextApp ==
    \/ RunEffects
    \/ clickNextButton
    \/ clickPrevButton
    \/ \E i \in Slides : setCurrentSlide(i)
    \/ \E key \in Keys : handleKeyDown(key)
    \/ clickFullscreenButton
    \/ requestFullscreenGranted
    \/ requestFullscreenRejected
    \/ exitFullscreenDone
    \/ userLeavesFullscreen
    \/ Dispose

SpecApp == Init /\ [][NextApp]_vars

------------------------------------------------------------------------------
(* Properties of PresentationApp, checked under SpecApp *)

\* C26: currentSlide is always an index of the deck, so exactly one slide
\* is active; nextSlide on the last slide and prevSlide on the first, from
\* the keyboard as well, leave it where it is; and it changes only by one
\* step forward or back or by a dot button to the slide of that dot.
T_C26_CurrentSlideInRange ==
    /\ [](/\ currentSlide \in 0..(NumSlides - 1)
          /\ Cardinality({s \in Slides : s = currentSlide}) = 1)
    /\ [][/\ (currentSlide = NumSlides - 1
                 /\ (nextSlide \/ handleKeyDown(KeyArrowRight)
                               \/ handleKeyDown(KeySpace)))
                => currentSlide' = currentSlide
          /\ (currentSlide = 0 /\ (prevSlide \/ handleKeyDown(KeyArrowLeft)))
                => currentSlide' = currentSlide
          /\ currentSlide' # currentSlide
                => \/ currentSlide' = currentSlide + 1
                   \/ currentSlide' = currentSlide - 1
                   \/ setCurrentSlide(currentSlide')]_vars

\* the last slide is shown and every slide has been shown on the way; the
\* next button is disabled there but ArrowRight and Space still call
\* nextSlide
W_C26_CurrentSlideInRange ==
    /\ mounted /\ ~effectPending
    /\ currentSlide = NumSlides - 1
    /\ \A s \in Slides : loading[s]
    /\ ENABLED handleKeyDown(KeyArrowRight)
    /\ ~ENABLED clickNextButton

\* C29: whenever the browser has acted on every request, the isFullscreen
\* flag tells whether the document is in fullscreen.
CX_C29_FlagMatchesDocument ==
    document.pending = <<>> => (isFullscreen = document.fullscreenElement)

-----------------------------------------------------------------------------
(* SpecSingle: the revision with one SlideBackground behind every slide     *)
(* (src/index.tsx:170-249, rendered at line 456 with the current slide's    *)
(* bgPrompt and isActive={true}).  Its state is the record `single`; a      *)
(* prompt is named by the index of its slide.  Each awaited fetchWithRetry  *)
(* record carries the prompt its closure was created with, and `from` is    *)
(* the prompt of the fetch whose outcome imageUrl or errorStatus holds.     *)

GenerationError ==
    <<"G","e","n","e","r","a","t","i","o","n"," ","E","r","r","o","r">>
NoImageData ==
    <<"N","o"," ","i","m","a","g","e"," ","d","a","t","a"," ","f","o","u","n","d"," ",
      "i","n"," ","r","e","s","p","o","n","s","e"," ","p","a","r","t","s",".">>

NoImageDataError == Err(None, NoImageData, None, <<>>)

\* three useState cells of the one SlideBackground, nothing awaited
SingleIdle ==
    [imageUrl |-> <<>>, loading |-> FALSE, errorStatus |-> <<>>,
     fetches |-> <<>>, from |-> <<>>]

\* createRoot(container).render(<PresentationApp />) of this revision
InitSingle ==
    /\ rcall = <<>>
    /\ currentSlide = 0
    /\ imageUrl = [s \in Slides |-> <<>>]
    /\ loading = [s \in Slides |-> FALSE]
    /\ errorStatus = [s \in Slides |-> <<>>]
    /\ fetches = [s \in Slides |-> <<>>]
    /\ lastFetch = [s \in Slides |-> <<>>]
    /\ effectPending = TRUE
    /\ mounted = TRUE
    /\ isFullscreen = FALSE
    /\ document = [fullscreenElement |-> FALSE, pending |-> <<>>]
    /\ single = SingleIdle

singleRest == <<rcall, imageUrl, loading, errorStatus, fetches, lastFetch,
                isFullscreen, document>>

\* if (isActive && !imageUrl && !loading), with isActive={true}
singleEffectCondition(st) == st.imageUrl = <<>> /\ ~st.loading

\* setErrorStatus(error?.status || error?.message || "Generation Error");
\* a status is kept as the one-element sequence holding it
singleDescribe(thrown) ==
    IF thrown = <<>> THEN GenerationError
    ELSE IF TruthyStatus(thrown[1].status) THEN <<thrown[1].status>>
    ELSE IF TruthyMessage(thrown[1].message) THEN thrown[1].message
    ELSE GenerationError

\* fetchImage after its await: setImageUrl or the thrown Error, catch, finally
singleFetchImageSettles(st, c) ==
    IF c.pc = "returned"
    THEN LET part == findInlineData(c.result[1])
         IN  IF part # <<>>
             THEN [st EXCEPT !.imageUrl = <<"data:image/png;base64,", part[1].inlineData>>,
                             !.loading = FALSE,
                             !.from = <<c.prompt>>]
             ELSE [st EXCEPT !.errorStatus = singleDescribe(<<NoImageDataError>>),
                             !.loading = FALSE,
                             !.from = <<c.prompt>>]
    ELSE [st EXCEPT !.errorStatus = singleDescribe(c.lastError),
                    !.loading = FALSE,
                    !.from = <<c.prompt>>]

\* the useEffect with dependencies [isActive, prompt, imageUrl, loading]:
\* when its condition holds, fetchImage() up to its await
singleRunEffect ==
    /\ mounted /\ effectPending
    /\ Len(single.fetches) < MaxInFlight
    /\ IF singleEffectCondition(single)
       THEN /\ single' = [single EXCEPT
                   !.loading = TRUE,
                   !.errorStatus = <<>>,
                   !.fetches = Append(@, [prompt |-> currentSlide] @@
                       fetchWithRetry("v44", DefaultMaxRetries, DefaultInitialDelay))]
            /\ effectPending' = TRUE
       ELSE /\ single' = single
            /\ effectPending' = FALSE
    /\ UNCHANGED <<singleRest, currentSlide, mounted>>

\* fetchWithRetry has returned or thrown: fetchImage's continuation runs
singleSettle(k, c) ==
    /\ single' = [singleFetchImageSettles(single, c) EXCEPT
                     !.fetches = RemoveAt(single.fetches, k)]
    /\ effectPending' = mounted

\* generateContent's promise fulfils
singleClientResolves(k) ==
    /\ ~(mounted /\ effectPending)
    /\ k \in 1..Len(single.fetches) /\ single.fetches[k].pc = "fn"
    /\ \E value \in ClientResponses :
          singleSettle(k, fnResolves(single.fetches[k], value))
    /\ UNCHANGED <<singleRest, currentSlide, mounted>>

\* generateContent's promise rejects
singleClientRejects(k) ==
    /\ ~(mounted /\ effectPending)
    /\ k \in 1..Len(single.fetches) /\ single.fetches[k].pc = "fn"
    /\ \E error \in ClientErrors :
          LET c == fnRejects(single.fetches[k], error)
          IN  IF c.pc = "thrown"
              THEN singleSettle(k, c)
              ELSE /\ single' = [single EXCEPT !.fetches[k] = c]
                   /\ UNCHANGED effectPending
    /\ UNCHANGED <<singleRest, currentSlide, mounted>>

\* the backoff timer of a waiting fetchWithRetry fires
singleBackoffElapses(k) ==
    /\ ~(mounted /\ effectPending)
    /\ k \in 1..Len(single.fetches) /\ single.fetches[k].pc = "timer"
    /\ LET c == timerFires(single.fetches[k])
       IN  IF c.pc = "thrown"
           THEN singleSettle(k, c)
           ELSE /\ single' = [single EXCEPT !.fetches[k] = c]
                /\ UNCHANGED effectPending
    /\ UNCHANGED <<singleRest, currentSlide, mounted>>

\* the Retry Render button is rendered in the branch without image, when
\* !loading and errorStatus
retryRenderRendered(st) ==
    st.imageUrl = <<>> /\ ~st.loading /\ st.errorStatus # <<>>

\* a press of Retry Render while the error panel is on screen:
\* onClick={() => { setImageUrl(null); setLoading(false); setErrorStatus(null); }}
\* Neither imageUrl nor loading changes, so no dependency of the effect does.
clickRetryRender ==
    /\ mounted
    /\ retryRenderRendered(single)
    /\ single' = [single EXCEPT !.imageUrl = <<>>,
                                !.loading = FALSE,
                                !.errorStatus = <<>>]
    /\ UNCHANGED <<singleRest, currentSlide, effectPending, mounted>>

\* nextSlide, prevSlide and the dots of this revision (src/index.tsx:425-426,
\* 506) are the ones above, word for word; a new currentSlide changes the
\* prompt prop, a dependency of the effect
singleNavigate(i) ==
    /\ mounted /\ ~effectPending
    /\ currentSlide' \in {Min(currentSlide + 1, NumSlides - 1),
                          Max(currentSlide - 1, 0), i}
    /\ effectPending' = (currentSlide' # currentSlide)
    /\ UNCHANGED <<singleRest, single, mounted>>

\* the root is torn down
singleDispose ==
    /\ mounted
    /\ mounted' = FALSE
    /\ effectPending' = FALSE
    /\ UNCHANGED <<singleRest, single, currentSlide>>

NextSingle ==
    \/ singleRunEffect
    \/ \E i \in Slides : singleNavigate(i)
    \/ clickRetryRender
    \/ \E k \in 1..MaxInFlight : singleClientResolves(k)
    \/ \E k \in 1..MaxInFlight : singleClientRejects(k)
    \/ \E k \in 1..MaxInFlight : singleBackoffElapses(k)
    \/ singleDispose

SpecSingle == InitSingle /\ [][NextSingle]_vars

\* the error state of the single background: errorStatus set, loading false
SingleErrorState == single.errorStatus # <<>> /\ ~single.loading

\* C27: in the single-background revision a failed fetch leaves the
\* controller resting in the error state: while the slide whose prompt
\* failed is shown, no step from the error state starts a fetch (so the
\* client is not invoked again) and the error state is left only by a
\* press of Retry Render.
CX_C27_RestsInErrorState ==
    [][(SingleErrorState /\ single.from = <<currentSlide>>)
          => /\ single'.fetches = <<>>
             /\ SingleErrorState' \/ clickRetryRender]_vars

\* C28: in the single-background revision, once the effects of a commit
\* have run, a displayed image was generated from the prompt of the slide
\* currently shown.
CX_C28_ImageOfCurrentPrompt ==
    (mounted /\ ~effectPending /\ single.imageUrl # <<>>)
        => single.from = <<currentSlide>>

====
